---- MODULE Spec2Model ----
(***************************************************************************)
(* Model of the DashScope streaming WebSocket endpoint                      *)
(* (src/src/routes/dashscope/webSocket.ts) and of the session chat handler *)
(* (src/src/routes/dashscope/chat.ts, src/src/utils/memory.ts).            *)
(*                                                                         *)
(* One WebSocket connection is modelled.  Every accepted client message    *)
(* gets a slot 1..MaxReq and starts an async handler that is suspended at  *)
(* `await create(...)` and then at every pull of the `for await` loop.     *)
(* The upstream (DashScope client) is the environment: it resolves or      *)
(* rejects the call, yields chunks, ends or throws.                        *)
(***************************************************************************)
EXTENDS Integers, Sequences, FiniteSets, TLC

\* ---------------------------------------------------------------- bounds
MaxReq == 2
MaxRejected == 1
MaxChunks == 2
MaxClock == 2
MaxChat == 2
MaxClear == 1
MaxTurns == 4
MaxK == 2
MaxCalls == 3

\* new ConversationBufferWindowMemory(10)
WindowK == 10

VARIABLES
    readyState,        \* ws.readyState: "OPEN" | "CLOSING" | "CLOSED"
    activeController,  \* slot of the AbortController held, 0 = null
    aborted,           \* aborted[h]: signal.aborted of the controller made by slot h
    nreq,              \* client messages accepted so far
    nrej,              \* client messages rejected so far
    pc,                \* pc[h]: where the handler of message h is
    reqId,             \* reqId[h]: requestId computed by the handler of message h
    produced,          \* produced[h]: chunks the stream of the running handler h has yielded
    out,               \* server messages written to the socket, in order
    memoryStore,       \* chat.ts memoryStore: sessionId -> memory instance, 0 = no entry
    memories,          \* memories[m]: chatHistory messages of memory instance m
    ninst,             \* memory instances constructed so far
    nchat,             \* chat requests received so far
    cpc,               \* cpc[p]: where dashScopeChatHandler is for request p
    creq,              \* creq[p]: the locals of request p (sessionId, memory, history) and the array it holds
    clearing,          \* sessions whose clearMemoryHandler awaits clear()
    nclear,            \* clear requests received so far
    cleared,           \* cleared[sid]: the turns a clear of sid found (pending) and has discarded (done)
    mtype,             \* memory.ts: class of the memory object in use, "none" before construction
    mk,                \* its k (Window, SummaryBuffer)
    mhist,             \* its chatHistory messages
    msummary,          \* its summary (Summary, SummaryBuffer)
    mentities,         \* its entities, own properties in enumeration order (Entity)
    mpc,               \* where chatWithMemory is
    mcall,             \* locals of the running chatWithMemory call
    mret,              \* how the last chatWithMemory call ended
    mnchat,            \* chatWithMemory calls made so far
    mwrites,           \* user/assistant pairs appended since construction or the last clear
    mfold              \* leading stored turns handed to updateSummary (passed) and summarized (absorbed)

wsvars == <<readyState, activeController, aborted, nreq, nrej, pc, reqId, produced, out>>
chatvars == <<memoryStore, memories, ninst, nchat, cpc, creq, clearing, nclear, cleared>>
memvars == <<mtype, mk, mhist, msummary, mentities, mpc, mcall, mret, mnchat, mwrites, mfold>>
vars == <<wsvars, chatvars, memvars>>

Slots == 1..MaxReq

\* ------------------------------------------------------------------ text
\* A string is a sequence of characters; " " is the whitespace character.
IsSpace(c) == c = " "

RECURSIVE TrimLeft(_)
TrimLeft(s) == IF s # <<>> /\ IsSpace(Head(s)) THEN TrimLeft(Tail(s)) ELSE s

RECURSIVE TrimRight(_)
TrimRight(s) ==
    IF s # <<>> /\ IsSpace(s[Len(s)]) THEN TrimRight(SubSeq(s, 1, Len(s) - 1)) ELSE s

\* String.prototype.trim
Trim(s) == TrimRight(TrimLeft(s))

Digits == <<"0", "1", "2", "3", "4", "5", "6", "7", "8", "9">>

\* `${n}` for a non-negative integer
RECURSIVE NumToText(_)
NumToText(n) ==
    IF n < 10 THEN <<Digits[n + 1]>> ELSE NumToText(n \div 10) \o <<Digits[(n % 10) + 1]>>

\* ----------------------------------------------------------- JSON values
\* A JavaScript value: t is its kind, s its text when it is a string.
Undef == [t |-> "undefined", s |-> <<>>]
Num == [t |-> "number", s |-> <<>>]
Str(s) == [t |-> "string", s |-> s]
IsString(v) == v.t = "string"

\* An entry of msg.messages: nullish (null), or {role, content}.
Entry(role, content) == [nullish |-> FALSE, role |-> role, content |-> content]
NullEntry == [nullish |-> TRUE, role |-> "", content |-> Undef]

\* msg.messages: not there, something that is no array, or an array.
NoMessages == [t |-> "undefined", items |-> <<>>]
NotArray == [t |-> "string", items |-> <<>>]
Arr(items) == [t |-> "array", items |-> items]

\* What JSON.parse delivers: top is the kind of the top-level value, truthy
\* its truthiness, and id, input, messages the properties read from it.
Top(kind, truthy) ==
    [top |-> kind, truthy |-> truthy, id |-> Undef, input |-> Undef, messages |-> NoMessages]
Obj(id, input, messages) ==
    [top |-> "object", truthy |-> TRUE, id |-> id, input |-> input, messages |-> messages]
JsNull == Top("null", FALSE)

\* The frame as received: wellFormed is whether its text is JSON at all.
Raw(wellFormed, value) == [wellFormed |-> wellFormed, value |-> value]

\* safeJsonParse: the parsed value, null when JSON.parse throws
safeJsonParse(raw) == IF raw.wellFormed THEN raw.value ELSE JsNull

\* typeof x === 'object' (null and arrays included)
TypeofObject(v) == v.top \in {"object", "array", "null"}

\* the guard of line 103, negated: parsed && typeof parsed === 'object'
PassesObjectCheck(parsed) == parsed.truthy /\ TypeofObject(parsed)

ValidRoles == {"system", "user", "assistant"}

\* the filter predicate of line 55
KeepEntry(m) == ~m.nullish /\ m.role \in ValidRoles /\ IsString(m.content)

RECURSIVE FilterEntries(_)
FilterEntries(items) ==
    IF items = <<>> THEN <<>>
    ELSE LET rest == FilterEntries(Tail(items))
         IN  IF KeepEntry(Head(items))
             THEN <<[role |-> Head(items).role, content |-> Head(items).content.s]>> \o rest
             ELSE rest

\* buildRequestMessages
buildRequestMessages(msg) ==
    IF msg.messages.t = "array" /\ Len(msg.messages.items) > 0
    THEN FilterEntries(msg.messages.items)
    ELSE LET input == IF IsString(msg.input) THEN Trim(msg.input.s) ELSE <<>>
         IN  <<[role |-> "user", content |-> input]>>

\* line 111: the message carries an id of its own
HasClientId(msg) == IsString(msg.id) /\ Trim(msg.id.s) # <<>>

\* line 111: the client's trimmed id, or the clock
RequestIdOf(msg, clock) ==
    IF IsString(msg.id) /\ Trim(msg.id.s) # <<>> THEN Trim(msg.id.s) ELSE NumToText(clock)

\* the guard of line 115
MissingContent(requestMessages) ==
    \/ Len(requestMessages) = 0
    \/ Trim(requestMessages[1].content) = <<>>

\* ------------------------------------------------------ server messages
NoId == <<>>
ReadyMsg == [type |-> "ready", id |-> NoId, content |-> <<>>, message |-> ""]
StartMsg(id) == [type |-> "start", id |-> id, content |-> <<>>, message |-> ""]
DeltaMsg(id, content) == [type |-> "delta", id |-> id, content |-> content, message |-> ""]
EndMsg(id) == [type |-> "end", id |-> id, content |-> <<>>, message |-> ""]
ErrorMsg(id, message) == [type |-> "error", id |-> id, content |-> <<>>, message |-> message]

\* sendJson without its readyState guard
sendJsonUnguarded(payload) == Append(out, payload)

\* sendJson: nothing is written unless the socket is OPEN
sendJson(payload) == IF readyState # "OPEN" THEN out ELSE Append(out, payload)

\* the previous controller is replaced without being aborted
AbortNothing == aborted

\* activeController.abort() when one is held (lines 94 and 121)
AbortActive == IF activeController # 0
               THEN [aborted EXCEPT ![activeController] = TRUE]
               ELSE aborted

\* ------------------------------------------------------- client messages
\* The frames a client sends in the connection model.  The client names
\* its requests "1"; Date.now() gives any of 1..MaxClock, so a generated
\* id may equal the client's.
WsInputs ==
    { Raw(FALSE, JsNull),                                   \* not JSON
      Raw(TRUE, JsNull),                                    \* null
      Raw(TRUE, Top("number", TRUE)),                       \* 42
      Raw(TRUE, Top("string", FALSE)),                      \* ""
      Raw(TRUE, Top("array", TRUE)),                        \* []
      Raw(TRUE, Obj(Undef, Undef, Arr(<<>>))),              \* {messages: []}
      Raw(TRUE, Obj(Str(<<"1">>), Str(<<" ">>), NoMessages)),
      Raw(TRUE, Obj(Str(<<"1">>), Str(<<"a">>), NoMessages)),
      Raw(TRUE, Obj(Str(<<" ", "1", " ">>), Str(<<" ", "a">>), NoMessages)),
      Raw(TRUE, Obj(Undef, Str(<<"a">>), NoMessages)),
      Raw(TRUE, Obj(Str(<<" ">>), Str(<<"a">>), NotArray)),
      Raw(TRUE, Obj(Num, Undef, Arr(<<Entry("user", Str(<<"a">>))>>))),
      Raw(TRUE, Obj(Str(<<"1">>), Str(<<"a">>), Arr(<<Entry("tool", Str(<<"a">>)), NullEntry>>))),
      Raw(TRUE, Obj(Str(<<"1">>), Undef,
                    Arr(<<Entry("system", Str(<<" ">>)), Entry("user", Str(<<"a">>))>>))) }

\* A chunk of the upstream stream: chunk?.choices?.[0]?.delta?.content
Chunks == { Str(<<"x">>), Str(<<>>), Undef }

\* ------------------------------------------------------------------ Init
WsInit ==
    /\ readyState = "OPEN"
    /\ activeController = 0
    /\ aborted = [h \in Slots |-> FALSE]
    /\ nreq = 0
    /\ nrej = 0
    /\ pc = [h \in Slots |-> "none"]
    /\ reqId = [h \in Slots |-> NoId]
    /\ produced = [h \in Slots |-> <<>>]
    /\ out = <<ReadyMsg>>

\* --------------------------------------------------- ws.on('message', ...)
\* Line 131 onwards up to the await of line 145: the request is accepted.
Accept(h, requestId) ==
    /\ aborted' = AbortActive
    /\ activeController' = h
    /\ out' = sendJson(StartMsg(requestId))
    /\ pc' = [pc EXCEPT ![h] = "create"]
    /\ reqId' = [reqId EXCEPT ![h] = requestId]
    /\ nreq' = h
    /\ UNCHANGED nrej

\* the old request is cancelled before the new message is validated
RejectAfterAbort(id, message) ==
    /\ out' = sendJson(ErrorMsg(id, message))
    /\ nrej' = nrej + 1
    /\ aborted' = AbortActive
    /\ activeController' = 0
    /\ UNCHANGED <<pc, reqId, nreq>>

\* the rejection ends the handler of the generating request
RejectStoppingActive(id, message) ==
    /\ out' = sendJson(ErrorMsg(id, message))
    /\ nrej' = nrej + 1
    /\ pc' = [h \in Slots |-> IF h = activeController THEN "done" ELSE pc[h]]
    /\ UNCHANGED <<activeController, aborted, reqId, nreq>>

\* Lines 104-105 and 116-117: an error reply and return.
Reject(id, message) ==
    /\ out' = sendJson(ErrorMsg(id, message))
    /\ nrej' = nrej + 1
    /\ UNCHANGED <<activeController, aborted, pc, reqId, nreq>>

\* The handler of one client message up to its first await (lines 98-150);
\* clock is what Date.now() returns when the message is handled (the wall
\* clock: it may repeat and is not monotonic).
OnMessage(raw, clock) ==
    /\ readyState = "OPEN"
    /\ LET parsed == safeJsonParse(raw)
           requestId == RequestIdOf(parsed, clock)
           requestMessages == buildRequestMessages(parsed)
       IN  IF ~PassesObjectCheck(parsed)
           THEN nrej < MaxRejected /\ Reject(NoId, "notObject")
           ELSE IF MissingContent(requestMessages)
           THEN nrej < MaxRejected /\ Reject(requestId, "missingInput")
           ELSE nreq < MaxReq /\ Accept(nreq + 1, requestId)
    /\ UNCHANGED <<readyState, produced, chatvars, memvars>>

\* ------------------------------------------------- the suspended handler
\* the end notification moved to a finally block: it follows the error
CatchErrorThenEnd(h, message) ==
    /\ out' = IF readyState # "OPEN" THEN out
              ELSE out \o <<ErrorMsg(reqId[h], message), EndMsg(reqId[h])>>
    /\ pc' = [pc EXCEPT ![h] = "done"]
    /\ produced' = [produced EXCEPT ![h] = <<>>]

\* an empty catch block: the failure is swallowed
CatchSilently(h, message) ==
    /\ out' = out
    /\ pc' = [pc EXCEPT ![h] = "done"]
    /\ produced' = [produced EXCEPT ![h] = <<>>]

\* Leaving the handler through the catch block (lines 163-167); the stream
\* of a handler that has returned is released.
CatchError(h, message) ==
    /\ out' = sendJson(ErrorMsg(reqId[h], message))
    /\ pc' = [pc EXCEPT ![h] = "done"]
    /\ produced' = [produced EXCEPT ![h] = <<>>]

\* await create(...) resolves with the stream (line 145); a call whose
\* signal (line 146) is aborted does not deliver one, it rejects
CreateResolve(h) ==
    /\ pc[h] = "create"
    /\ ~aborted[h]
    /\ pc' = [pc EXCEPT ![h] = "stream"]
    /\ UNCHANGED <<readyState, activeController, aborted, nreq, nrej, reqId, produced, out, chatvars, memvars>>

\* await create(...) rejects (line 145 -> 163)
CreateReject(h) ==
    /\ pc[h] = "create"
    /\ CatchError(h, "errMessage")
    /\ UNCHANGED <<readyState, activeController, aborted, nreq, nrej, reqId, chatvars, memvars>>

\* One iteration of the for await loop (lines 153-159) followed, when the
\* loop is left by break, by line 162.  The loop never reads the signal:
\* a chunk the stream still hands over after the abort is forwarded.
StreamChunk(h) ==
    /\ pc[h] = "stream"
    /\ Len(produced[h]) < MaxChunks
    /\ \E chunk \in Chunks :
         /\ produced' = [produced EXCEPT ![h] = IF readyState # "OPEN" THEN <<>> ELSE Append(@, chunk)]
         /\ IF readyState # "OPEN"
            THEN /\ out' = sendJson(EndMsg(reqId[h]))
                 /\ pc' = [pc EXCEPT ![h] = "done"]
            ELSE /\ out' = IF IsString(chunk) /\ Len(chunk.s) > 0
                           THEN sendJson(DeltaMsg(reqId[h], chunk.s))
                           ELSE out
                 /\ pc' = pc
    /\ UNCHANGED <<readyState, activeController, aborted, nreq, nrej, reqId, chatvars, memvars>>

\* The stream is exhausted: the loop ends and line 162 runs.
StreamEnd(h) ==
    /\ pc[h] = "stream"
    /\ out' = sendJson(EndMsg(reqId[h]))
    /\ pc' = [pc EXCEPT ![h] = "done"]
    /\ produced' = [produced EXCEPT ![h] = <<>>]
    /\ UNCHANGED <<readyState, activeController, aborted, nreq, nrej, reqId, chatvars, memvars>>

\* The pull of the next chunk throws (line 153 -> 163)
StreamThrow(h) ==
    /\ pc[h] = "stream"
    /\ CatchError(h, "errMessage")
    /\ UNCHANGED <<readyState, activeController, aborted, nreq, nrej, reqId, chatvars, memvars>>

HandlerStep(h) ==
    CreateResolve(h) \/ CreateReject(h) \/ StreamChunk(h) \/ StreamEnd(h) \/ StreamThrow(h)

\* ----------------------------------------------------------- the socket
\* The close frame arrives or the socket ends: ws.readyState leaves OPEN
\* (read at lines 43 and 154) before the 'close' event is emitted.
OnClosing ==
    /\ readyState = "OPEN"
    /\ readyState' = "CLOSING"
    /\ UNCHANGED <<activeController, aborted, nreq, nrej, pc, reqId, produced, out, chatvars, memvars>>

\* ws.on('close', ...) (lines 93-96)
OnClose ==
    /\ readyState = "CLOSING"
    /\ readyState' = "CLOSED"
    /\ aborted' = AbortActive
    /\ activeController' = 0
    /\ UNCHANGED <<nreq, nrej, pc, reqId, produced, out, chatvars, memvars>>

\* ===================================================== connection claims
Idx == 1..Len(out)
Accepted == 1..nreq
Live(h) == pc[h] \in {"create", "stream"}

\* The ids on the connection are distinct: no two accepted requests share
\* an id and no rejection reply carries the id of an accepted request.
DistinctIds ==
    /\ \A g, h \in Accepted : g # h => reqId[g] # reqId[h]
    /\ \A i \in Idx : out[i].message = "missingInput" =>
                           \A h \in Accepted : out[i].id # reqId[h]

IsTerminalOf(i, id) == out[i].type \in {"end", "error"} /\ out[i].id = id
TerminalCount(id) == Cardinality({i \in Idx : IsTerminalOf(i, id)})
Terminated(h) == TerminalCount(reqId[h]) > 0

\* the contents of the deltas emitted for an id, in order
RECURSIVE DeltasOf(_, _)
DeltasOf(msgs, id) ==
    IF msgs = <<>> THEN <<>>
    ELSE LET rest == DeltasOf(Tail(msgs), id)
         IN  IF Head(msgs).type = "delta" /\ Head(msgs).id = id
             THEN <<Head(msgs).content>> \o rest
             ELSE rest

\* the non-empty text fragments among the chunks of a stream, in order
RECURSIVE Fragments(_)
Fragments(chunks) ==
    IF chunks = <<>> THEN <<>>
    ELSE LET rest == Fragments(Tail(chunks))
         IN  IF Head(chunks).t = "string" /\ Head(chunks).s # <<>>
             THEN <<Head(chunks).s>> \o rest
             ELSE rest

IsPrefix(a, b) == Len(a) <= Len(b) /\ SubSeq(b, 1, Len(a)) = a
SlotOfId(id) == CHOOSE h \in Accepted : reqId[h] = id

\* C1: on the connection at most one accepted request is both
\* non-cancelled (its abort handle not signalled) and non-completed.
C1_OneActiveRequest ==
    Cardinality({h \in Accepted : ~aborted[h] /\ Live(h)}) <= 1

\* C1 witness: a superseded request is still running beside its successor.
C1_Witness ==
    /\ nreq = 2
    /\ Live(1) /\ aborted[1]
    /\ Live(2) /\ ~aborted[2]

\* C2: after start(r2) has superseded an in-flight r1, no delta carrying
\* r1's id is emitted.
C2_NoDeltaAfterSupersede ==
    DistinctIds =>
        \A g, h \in Accepted : \A i, k \in Idx :
            (g < h /\ out[i] = StartMsg(reqId[h]) /\ i < k)
                => ~(out[k].type = "delta" /\ out[k].id = reqId[g])

\* C3: the terminal message a superseded request emits after the start of
\* its successor is an error, never an end.
C3_SupersededEndsWithError ==
    DistinctIds =>
        \A g, h \in Accepted : \A i, k \in Idx :
            (g < h /\ out[i] = StartMsg(reqId[h]) /\ i < k /\ IsTerminalOf(k, reqId[g]))
                => out[k].type = "error"

\* C4: never do two request ids both have a start emitted and neither an
\* end nor an error emitted yet.
C4_OneUnterminated ==
    DistinctIds => Cardinality({h \in Accepted : ~Terminated(h)}) <= 1

\* C5: with distinct ids, every accepted request gets at most one terminal
\* message (end or error) in the whole trace.
C5_AtMostOneTerminal ==
    DistinctIds => \A h \in Accepted : TerminalCount(reqId[h]) <= 1

\* C5 witness: a superseded and a superseding request have both emitted
\* their terminal message, one of them an error.
C5_Witness ==
    /\ DistinctIds
    /\ nreq = 2
    /\ aborted[1]
    /\ TerminalCount(reqId[1]) = 1 /\ TerminalCount(reqId[2]) = 1
    /\ \E i \in Idx : out[i].type = "error" /\ out[i].id = reqId[1]

\* C6: while the connection stays open and the upstream keeps moving,
\* every accepted request eventually completes with its terminal message.
C6_EventuallyTerminal ==
    ([](readyState = "OPEN")) =>
        \A h \in Slots :
            (pc[h] # "none") ~> (pc[h] = "done" /\ (DistinctIds => Terminated(h)))

\* C6 witness: on an open connection a superseded request and its
\* successor have both completed and emitted their terminal messages.
C6_Witness ==
    /\ readyState = "OPEN"
    /\ DistinctIds
    /\ nreq = 2
    /\ pc[1] = "done" /\ pc[2] = "done"
    /\ Terminated(1) /\ Terminated(2)
    /\ aborted[1]
    /\ DeltasOf(out, reqId[1]) # <<>>

\* C7: the deltas of a running request are the non-empty fragments of its
\* stream in order (a prefix once the socket is closed), and no delta of
\* an earlier request follows a delta of a later one.
C7_DeltasInOrderNotInterleaved ==
    DistinctIds =>
        /\ \A h \in Accepted : pc[h] = "stream" =>
              /\ IsPrefix(DeltasOf(out, reqId[h]), Fragments(produced[h]))
              /\ readyState = "OPEN" => DeltasOf(out, reqId[h]) = Fragments(produced[h])
        /\ \A i, k \in Idx :
              (i < k /\ out[i].type = "delta" /\ out[k].type = "delta")
                  => SlotOfId(out[i].id) <= SlotOfId(out[k].id)

\* A message with no usable content, in the words of the claim: no turn
\* with a valid role and non-blank text, respectively no non-blank input.
NoUsableContent(msg) ==
    IF msg.messages.t = "array" /\ Len(msg.messages.items) > 0
    THEN \A i \in 1..Len(msg.messages.items) :
            LET m == msg.messages.items[i]
            IN  ~(~m.nullish /\ m.role \in ValidRoles /\ m.content.t = "string"
                  /\ Trim(m.content.s) # <<>>)
    ELSE ~(msg.input.t = "string" /\ Trim(msg.input.s) # <<>>)

InvalidFrame(raw) ==
    \/ ~raw.wellFormed
    \/ raw.value.top # "object"
    \/ NoUsableContent(raw.value)

\* C8: a message that is no JSON object or has no usable content gets
\* exactly one error reply and changes nothing else: no start, no handler,
\* no controller allocated or aborted.
C8_InvalidMessageOnlyErrors ==
    [][\A raw \in WsInputs : \A clock \in 1..MaxClock :
          (InvalidFrame(raw) /\ OnMessage(raw, clock)) =>
              /\ Len(out') = Len(out) + 1
              /\ SubSeq(out', 1, Len(out)) = out
              /\ out'[Len(out')].type = "error"
              /\ activeController' = activeController
              /\ aborted' = aborted
              /\ pc' = pc
              /\ nreq' = nreq
              /\ produced' = produced]_vars

\* C8 witness: an idle connection answered an invalid message with an
\* error and then accepted the next valid message.
C8_Witness ==
    /\ Len(out) >= 3
    /\ out[2].type = "error" /\ out[2].message \in {"notObject", "missingInput"}
    /\ out[3].type = "start"
    /\ nrej = 1 /\ nreq = 1 /\ activeController = 1

ClosedStep ==
    /\ readyState' # "OPEN" => out' = out
    /\ readyState' = "CLOSED" =>
          /\ activeController' = 0
          /\ activeController # 0 => aborted'[activeController]

\* C9: the close aborts and discards the active controller, and from the
\* moment the socket has left OPEN no server message is written.
C9_NothingAfterClose ==
    [][ClosedStep]_vars

\* C9 witness: the socket closed while a request was generating; the
\* request was aborted and completed without any terminal message.
C9_Witness ==
    /\ readyState = "CLOSED"
    /\ DistinctIds
    /\ \E h \in Accepted :
          /\ pc[h] = "done" /\ aborted[h]
          /\ ~Terminated(h)
          /\ DeltasOf(out, reqId[h]) # <<>>

\* ============================================================ chat.ts
DefaultSession == <<"d">>
Sessions == {DefaultSession, <<"s">>}
ChatReqs == 1..MaxChat
Insts == 1..(MaxChat + MaxClear)

\* The request bodies of POST /dashscope/chat: input and sessionId.
ChatBodies ==
    { [input |-> Str(<<"a">>), sessionId |-> Undef],
      [input |-> Str(<<" ", "a">>), sessionId |-> Str(<<"s">>)],
      [input |-> Str(<<"a">>), sessionId |-> Num],
      [input |-> Str(<<" ">>), sessionId |-> Str(<<"s">>)],
      [input |-> Undef, sessionId |-> Undef] }

\* getRequiredBodyString throws unless the value is a non-blank string
RequiredStringThrows(v) == ~IsString(v) \/ Trim(v.s) = <<>>

\* getOptionalBodyString(body, 'sessionId') ?? 'default-session'
SessionIdOf(body) == IF IsString(body.sessionId) THEN body.sessionId.s ELSE DefaultSession

HumanMessage(p, content) == [type |-> "human", content |-> content, by |-> p]
AIMessage(p, content) == [type |-> "ai", content |-> content, by |-> p]

\* the answer of the model to request p
AnswerOf(p) == <<"r">>

\* Array.prototype.slice: a relative index, negative counting from the end,
\* clamped to 0..len. The index -0 is 0.
SliceIndex(len, rel) ==
    IF rel < 0
    THEN (IF len + rel < 0 THEN 0 ELSE len + rel)
    ELSE (IF rel > len THEN len ELSE rel)

\* a.slice(start, end)
Slice(a, start, end) ==
    SubSeq(a, SliceIndex(Len(a), start) + 1, SliceIndex(Len(a), end))

\* a.slice(start)
SliceFrom(a, start) == Slice(a, start, Len(a))

\* a window read that keeps the oldest messages instead of the newest
WindowGetOldest(messages, k) ==
    LET limit == k * 2
    IN  IF Len(messages) > limit THEN Slice(messages, 0, limit) ELSE messages

\* ConversationBufferWindowMemory.getMessages:
\* messages.length > limit ? messages.slice(-limit) : messages
WindowGetMessages(messages, k) ==
    LET limit == k * 2
    IN  IF Len(messages) > limit THEN SliceFrom(messages, 0 - limit) ELSE messages

\* the set of the messages of a history
TurnsIn(messages) == { messages[i] : i \in DOMAIN messages }

\* stale: the turns a completed clear of the session had discarded when
\* the request began
\* messages: the array getMessages holds when it is no longer the array
\* of the instance (replaced by clear(), or the copy slice made)
NoReq == [sessionId |-> <<>>, input |-> <<>>, memory |-> 0, history |-> <<>>,
          messages |-> <<>>, replaced |-> FALSE, sliced |-> FALSE,
          historyCount |-> 0, stale |-> {}]

ChatInit ==
    /\ memoryStore = [sid \in Sessions |-> 0]
    /\ memories = [m \in Insts |-> <<>>]
    /\ ninst = 0
    /\ nchat = 0
    /\ cpc = [p \in ChatReqs |-> "none"]
    /\ creq = [p \in ChatReqs |-> NoReq]
    /\ clearing = {}
    /\ nclear = 0
    /\ cleared = [sid \in Sessions |-> [pending |-> {}, done |-> {}]]

\* a getMemory that makes a new instance at every call
ChatBeginAlwaysNew(body) ==
    /\ nchat < MaxChat
    /\ nchat' = nchat + 1
    /\ LET p == nchat + 1
           sessionId == SessionIdOf(body)
       IN  IF RequiredStringThrows(body.input)
           THEN /\ cpc' = [cpc EXCEPT ![p] = "failed"]
                /\ UNCHANGED <<memoryStore, ninst, creq>>
           ELSE /\ IF TRUE
                   THEN /\ ninst' = ninst + 1
                        /\ memoryStore' = [memoryStore EXCEPT ![sessionId] = ninst + 1]
                   ELSE UNCHANGED <<memoryStore, ninst>>
                /\ creq' = [creq EXCEPT ![p] = [sessionId |-> sessionId,
                                                input |-> Trim(body.input.s),
                                                memory |-> memoryStore'[sessionId],
                                                history |-> <<>>,
                                                messages |-> <<>>,
                                                replaced |-> FALSE,
                                                sliced |-> FALSE,
                                                historyCount |-> 0,
                                                stale |-> cleared[sessionId].done]]
                /\ cpc' = [cpc EXCEPT ![p] = "getMessages"]
    /\ UNCHANGED <<memories, clearing, cleared, nclear, wsvars, memvars>>

\* dashScopeChatHandler, lines 34-44: the body is read, getMemory creates
\* or returns the session's memory, and getMessages is called: it obtains
\* the array of stored messages (memory.ts 52) before its first await.
ChatBegin(body) ==
    /\ nchat < MaxChat
    /\ nchat' = nchat + 1
    /\ LET p == nchat + 1
           sessionId == SessionIdOf(body)
       IN  IF RequiredStringThrows(body.input)
           THEN /\ cpc' = [cpc EXCEPT ![p] = "failed"]
                /\ UNCHANGED <<memoryStore, ninst, creq>>
           ELSE /\ IF memoryStore[sessionId] = 0
                   THEN /\ ninst' = ninst + 1
                        /\ memoryStore' = [memoryStore EXCEPT ![sessionId] = ninst + 1]
                   ELSE UNCHANGED <<memoryStore, ninst>>
                /\ creq' = [creq EXCEPT ![p] = [sessionId |-> sessionId,
                                                input |-> Trim(body.input.s),
                                                memory |-> memoryStore'[sessionId],
                                                history |-> <<>>,
                                                messages |-> <<>>,
                                                replaced |-> FALSE,
                                                sliced |-> FALSE,
                                                historyCount |-> 0,
                                                stale |-> cleared[sessionId].done]]
                /\ cpc' = [cpc EXCEPT ![p] = "getMessages"]
    /\ UNCHANGED <<memories, clearing, cleared, nclear, wsvars, memvars>>

\* the array request p holds: the instance's own array as it is now, or
\* the one a clear() has replaced, or the copy slice has made
HeldMessages(p) ==
    IF creq[p].replaced \/ creq[p].sliced
    THEN creq[p].messages
    ELSE memories[creq[p].memory]

\* memory.ts 54-55, after the await of line 52: getMessages returns the
\* array itself when it is within the limit, else a copy of its last
\* 2*k items.
ChatGetMessages(p) ==
    /\ cpc[p] = "getMessages"
    /\ creq' = IF Len(HeldMessages(p)) > WindowK * 2
               THEN [creq EXCEPT ![p].messages = WindowGetMessages(HeldMessages(p), WindowK),
                                 ![p].sliced = TRUE]
               ELSE creq
    /\ cpc' = [cpc EXCEPT ![p] = "history"]
    /\ UNCHANGED <<memoryStore, memories, ninst, nchat, clearing, cleared, nclear, wsvars, memvars>>

\* lines 44-55, after the await of line 44: the prompt is built from the
\* array getMessages returned, as it is now, and the model is called.
ChatRead(p) ==
    /\ cpc[p] = "history"
    /\ creq' = [creq EXCEPT ![p].history = HeldMessages(p)]
    /\ cpc' = [cpc EXCEPT ![p] = "invoke"]
    /\ UNCHANGED <<memoryStore, memories, ninst, nchat, clearing, cleared, nclear, wsvars, memvars>>

\* lines 55-59: the model answers and addUserMessage appends the input.
ChatModelReturn(p) ==
    /\ cpc[p] = "invoke"
    /\ memories' = [memories EXCEPT ![creq[p].memory] = Append(@, HumanMessage(p, creq[p].input))]
    /\ cpc' = [cpc EXCEPT ![p] = "addUserMessage"]
    /\ UNCHANGED <<memoryStore, ninst, nchat, creq, clearing, cleared, nclear, wsvars, memvars>>

\* a handler that stores the user turn before it calls the model
ChatModelFailAfterWrite(p) ==
    /\ cpc[p] = "invoke"
    /\ memories' = [memories EXCEPT ![creq[p].memory] = Append(@, HumanMessage(p, creq[p].input))]
    /\ cpc' = [cpc EXCEPT ![p] = "failed"]
    /\ UNCHANGED <<memoryStore, ninst, nchat, creq, clearing, cleared, nclear, wsvars, memvars>>

\* line 55 throws: the catch of line 69 answers with the error.
ChatModelFail(p) ==
    /\ cpc[p] = "invoke"
    /\ cpc' = [cpc EXCEPT ![p] = "failed"]
    /\ UNCHANGED <<memoryStore, memories, ninst, nchat, creq, clearing, cleared, nclear, wsvars, memvars>>

\* line 60: addAiMessage appends the answer.
ChatAddAi(p) ==
    /\ cpc[p] = "addUserMessage"
    /\ memories' = [memories EXCEPT ![creq[p].memory] = Append(@, AIMessage(p, AnswerOf(p)))]
    /\ cpc' = [cpc EXCEPT ![p] = "addAiMessage"]
    /\ UNCHANGED <<memoryStore, ninst, nchat, creq, clearing, cleared, nclear, wsvars, memvars>>

\* lines 62-67: the response is set; history.length (line 66) is the
\* length the held array has now.
ChatRespond(p) ==
    /\ cpc[p] = "addAiMessage"
    /\ creq' = [creq EXCEPT ![p].historyCount = Len(HeldMessages(p)) + 2]
    /\ cpc' = [cpc EXCEPT ![p] = "done"]
    /\ UNCHANGED <<memoryStore, memories, ninst, nchat, clearing, cleared, nclear, wsvars, memvars>>

\* clear() gives the instance a new empty array: a running request that
\* holds the array of the instance keeps the replaced one.
KeepReplaced(m) ==
    [p \in ChatReqs |->
        IF /\ cpc[p] \notin {"none", "failed", "done"}
           /\ creq[p].memory = m /\ ~creq[p].replaced /\ ~creq[p].sliced
        THEN [creq[p] EXCEPT !.messages = memories[m], !.replaced = TRUE]
        ELSE creq[p]]

\* clearMemoryHandler, lines 79-83: clear() empties the stored history of
\* the session's memory when the session has an entry.
ClearBegin(sessionId) ==
    /\ nclear < MaxClear
    /\ nclear' = nclear + 1
    /\ sessionId \notin clearing
    /\ IF memoryStore[sessionId] # 0
       THEN /\ memories' = [memories EXCEPT ![memoryStore[sessionId]] = <<>>]
            /\ creq' = KeepReplaced(memoryStore[sessionId])
            /\ clearing' = clearing \cup {sessionId}
            /\ cleared' = [cleared EXCEPT ![sessionId].pending =
                                TurnsIn(memories[memoryStore[sessionId]])]
       ELSE UNCHANGED <<memories, creq, clearing, cleared>>
    /\ UNCHANGED <<memoryStore, ninst, nchat, cpc, wsvars, memvars>>

\* a clear that empties the instance and leaves its entry in the store
ClearFinishKeeping(sessionId) ==
    /\ sessionId \in clearing
    /\ clearing' = clearing \ {sessionId}
    /\ memoryStore' = memoryStore
    /\ cleared' = [cleared EXCEPT ![sessionId] =
                      [pending |-> {},
                       done |-> @.done \cup @.pending
                                   \cup TurnsIn(memories[memoryStore[sessionId]])]]
    /\ UNCHANGED <<memories, ninst, nchat, cpc, creq, nclear, wsvars, memvars>>

\* line 84, after the await of clear(): the entry is deleted.
ClearFinish(sessionId) ==
    /\ sessionId \in clearing
    /\ clearing' = clearing \ {sessionId}
    /\ memoryStore' = [memoryStore EXCEPT ![sessionId] = 0]
    /\ cleared' = [cleared EXCEPT ![sessionId] =
                      [pending |-> {},
                       done |-> @.done \cup @.pending
                                   \cup TurnsIn(memories[memoryStore[sessionId]])]]
    /\ UNCHANGED <<memories, ninst, nchat, cpc, creq, nclear, wsvars, memvars>>

ChatNext ==
    \/ \E body \in ChatBodies : ChatBegin(body)
    \/ \E p \in ChatReqs : ChatGetMessages(p)
    \/ \E p \in ChatReqs : ChatRead(p)
    \/ \E p \in ChatReqs : ChatModelReturn(p)
    \/ \E p \in ChatReqs : ChatModelFail(p)
    \/ \E p \in ChatReqs : ChatAddAi(p)
    \/ \E p \in ChatReqs : ChatRespond(p)
    \/ \E sessionId \in Sessions : ClearBegin(sessionId)
    \/ \E sessionId \in Sessions : ClearFinish(sessionId)

\* =========================================================== chat claims
\* C10: no request reads the history of a session while another request
\* of the same session is between its own read and its own write.
C10_SerializedMemoryAccess ==
    [][\A p, q \in ChatReqs :
          (p # q /\ cpc[p] = "history" /\ cpc'[p] = "invoke"
           /\ creq[q].sessionId = creq[p].sessionId)
              => cpc[q] \notin {"invoke", "addUserMessage"}]_vars

\* C11: the session memory is written for a streaming request exactly when
\* it completes successfully: once end(r) was emitted, the user/assistant
\* pair of r is in a memory, and nothing is written otherwise.
C11_MemoryWrittenOnEnd ==
    LET ended == \E i \in Idx : out[i].type = "end"
        written == \E m \in Insts : \E j \in DOMAIN memories[m] : memories[m][j].type = "ai"
    IN  ended <=> written

\* =========================================================== memory.ts
MemTypes == {"buffer", "window", "summary", "summary_buffer", "entity"}
Ks == 0..MaxK

\* the user inputs given to chatWithMemory
MemInputs == {<<"a">>, <<"b">>}

\* the texts the summarizing chain returns
Summaries == {<<>>, <<"s">>, <<"t">>}

SystemMessage(content) == [type |-> "system", content |-> content, by |-> 0]

\* an addMessage that stores the new message in front
addMessageInFront(messages, m) == <<m>> \o messages

\* InMemoryChatMessageHistory.addMessage
addMessage(messages, m) == Append(messages, m)

\* `这是之前的对话摘要：${summary}` and `摘要上下文: ${summary}`
SummaryPrefix == <<"S">>
ContextPrefix == <<"C">>

\* a summary text that is built for an empty summary too
getSystemMessageAlways(summary) == SummaryPrefix \o summary

\* ConversationSummaryMemory.getSystemMessageContent
getSystemMessageContent(summary) ==
    IF summary # <<>> THEN SummaryPrefix \o summary ELSE <<>>

\* ConversationSummaryBufferMemory.getContext
getContext(summary, messages, k) ==
    LET limit == k * 2
    IN  [summary |-> summary,
         recentMessages |-> IF Len(messages) > limit
                            THEN SliceFrom(messages, 0 - limit)
                            ELSE messages]

\* saveContext, line 140: the history is long enough for a fold
FoldDue(messages, k) == Len(messages) > (k + 2) * 2

\* line 141: the messages handed to updateSummary
FoldBatch(messages, k) == Slice(messages, 0, Len(messages) - k * 2)

\* ------------------------------------------------------ entity table
\* An object is the sequence of its own properties <<key, value>> in the
\* order JavaScript enumerates them: array-index keys ascending, then the
\* other keys in the order they were created.
IsDigit(c) == \E i \in DOMAIN Digits : Digits[i] = c
DigitOf(c) == (CHOOSE i \in DOMAIN Digits : Digits[i] = c) - 1

\* the order of two canonical decimal texts by their value
IndexLess(a, b) ==
    \/ Len(a) < Len(b)
    \/ /\ Len(a) = Len(b)
       /\ \E i \in DOMAIN a :
             /\ \A j \in 1..(i - 1) : a[j] = b[j]
             /\ DigitOf(a[i]) < DigitOf(b[i])

\* the largest array index, 2^32 - 2
MaxIndexKey == <<"4", "2", "9", "4", "9", "6", "7", "2", "9", "4">>

\* an array-index key: the canonical decimal text of an integer 0 .. 2^32 - 2
IsIndexKey(key) ==
    /\ Len(key) > 0
    /\ \A i \in DOMAIN key : IsDigit(key[i])
    /\ Len(key) = 1 \/ key[1] # "0"
    /\ key = MaxIndexKey \/ IndexLess(key, MaxIndexKey)

HasKey(obj, key) == \E i \in DOMAIN obj : obj[i][1] = key
Lookup(obj, key) == obj[CHOOSE i \in DOMAIN obj : obj[i][1] = key][2]
KeysOf(obj) == { obj[i][1] : i \in DOMAIN obj }

\* obj[key] = value
Put(obj, key, value) ==
    IF HasKey(obj, key)
    THEN [i \in DOMAIN obj |-> IF obj[i][1] = key THEN <<key, value>> ELSE obj[i]]
    ELSE IF IsIndexKey(key)
    THEN LET Smaller(e) == IsIndexKey(e[1]) /\ IndexLess(e[1], key)
             pos == Len(SelectSeq(obj, Smaller))
         IN  SubSeq(obj, 1, pos) \o <<<<key, value>>>> \o SubSeq(obj, pos + 1, Len(obj))
    ELSE Append(obj, <<key, value>>)

\* What JSON.parse delivers to saveContext: body holds the properties of
\* an object, the items of an array, the characters of a string.
JObject(entries) == [t |-> "object", body |-> entries]
JArray(items) == [t |-> "array", body |-> items]
JString(s) == [t |-> "string", body |-> s]
JNumber == [t |-> "number", body |-> <<>>]
JNull == [t |-> "null", body |-> <<>>]

\* The own enumerable properties an object spread copies from a value:
\* the properties of an object, the indexed items of an array, the
\* indexed characters of a string, nothing from a number or null.
OwnEntries(v) ==
    CASE v.t = "object" -> v.body
      [] v.t \in {"array", "string"} ->
            [i \in 1..Len(v.body) |-> <<NumToText(i - 1), v.body[i]>>]
      [] OTHER -> <<>>

RECURSIVE CopyInto(_, _)
CopyInto(obj, entries) ==
    IF entries = <<>> THEN obj
    ELSE CopyInto(Put(obj, Head(entries)[1], Head(entries)[2]), Tail(entries))

\* a merge that keeps only what the extraction delivered
SpreadReplacing(a, b) == CopyInto(<<>>, OwnEntries(b))

\* { ...a, ...b } for an object a and a parsed value b
ObjectSpread(a, b) == CopyInto(CopyInto(<<>>, a), OwnEntries(b))

\* What chain.invoke does in saveContext: it rejects, or resolves with a
\* text; fenced is whether the text is wrapped in ``` marks, wellFormed
\* whether the text without the marks is JSON, value what it parses to.
Rejected == [rejected |-> TRUE, fenced |-> FALSE, wellFormed |-> FALSE, value |-> JNull]
Text(fenced, wellFormed, value) ==
    [rejected |-> FALSE, fenced |-> fenced, wellFormed |-> wellFormed, value |-> value]

\* result.replace(/```json|```/g, '').trim()
StripFences(text) == [text EXCEPT !.fenced = FALSE]
JsonParseThrows(text) == text.fenced \/ ~text.wellFormed
JsonParse(text) == text.value

KeyA == <<"A">>
KeyB == <<"B">>
Extractions ==
    { Rejected,
      Text(FALSE, FALSE, JNull),
      Text(TRUE, TRUE, JObject(<< <<KeyA, "x">> >>)),
      Text(FALSE, TRUE, JObject(<<>>)),
      Text(FALSE, TRUE, JObject(<< <<KeyA, "x">> >>)),
      Text(FALSE, TRUE, JObject(<< <<KeyB, "y">> >>)),
      Text(FALSE, TRUE, JObject(<< <<KeyA, "z">> >>)),
      Text(FALSE, TRUE, JObject(<< <<KeyB, "x">>, <<KeyA, "y">> >>)),
      Text(FALSE, TRUE, JArray(<<>>)),
      Text(FALSE, TRUE, JArray(<<"x">>)),
      Text(FALSE, TRUE, JString(<<>>)),
      Text(FALSE, TRUE, JString(<<"x">>)),
      Text(FALSE, TRUE, JNumber),
      Text(FALSE, TRUE, JNull) }

\* EntityMemory.getEntityContext: a heading and one line per property
EntityHeading == <<"E">>
getEntityContext(entities) ==
    IF Len(entities) = 0 THEN <<>> ELSE <<EntityHeading>> \o entities

\* EntityMemory.saveContext, lines 195-205: the table after the call
EntitiesAfter(entities, result) ==
    IF result.rejected \/ JsonParseThrows(StripFences(result))
    THEN entities
    ELSE ObjectSpread(entities, JsonParse(StripFences(result)))

\* ------------------------------------------------------ chatWithMemory
Max(a, b) == IF a > b THEN a ELSE b

NoCall == [input |-> <<>>, context |-> <<>>, answer |-> <<>>, batch |-> <<>>]

MemInit ==
    /\ mtype = "none"
    /\ mk = 0
    /\ mhist = <<>>
    /\ msummary = <<>>
    /\ mentities = <<>>
    /\ mpc = "idle"
    /\ mcall = NoCall
    /\ mret = "none"
    /\ mnchat = 0
    /\ mwrites = 0
    /\ mfold = [passed |-> 0, absorbed |-> 0]

\* The constructors: new ConversationBufferMemory(), new
\* ConversationBufferWindowMemory(k), new ConversationSummaryMemory(llm),
\* new ConversationSummaryBufferMemory(llm, k), new EntityMemory(llm).
NewMemory(type, k) ==
    /\ mtype = "none"
    /\ mtype' = type
    /\ mk' = IF type \in {"window", "summary_buffer"} THEN k ELSE 0
    /\ UNCHANGED <<mhist, msummary, mentities, mpc, mcall, mret, mnchat, mwrites, mfold, wsvars, chatvars>>

\* messages.unshift(new SystemMessage(systemText)) when systemText is not empty
WithSystem(systemText, messages) ==
    IF systemText # <<>> THEN <<SystemMessage(systemText)>> \o messages ELSE messages

\* chatWithMemory, lines 238-253: what the memory contributes to the prompt
ContextOf(type) ==
    CASE type = "buffer" -> mhist
      [] type = "window" -> WindowGetMessages(mhist, mk)
      [] type = "summary" -> WithSystem(getSystemMessageContent(msummary), <<>>)
      [] type = "summary_buffer" ->
            LET c == getContext(msummary, mhist, mk)
            IN  WithSystem(IF c.summary # <<>> THEN ContextPrefix \o c.summary ELSE <<>>,
                           c.recentMessages)
      [] type = "entity" -> WithSystem(getEntityContext(mentities), <<>>)

\* chatWithMemory, lines 233-257: the context is read and the model called.
MemChatBegin(input) ==
    /\ mtype # "none"
    /\ mpc = "idle"
    /\ mnchat < MaxTurns
    /\ mnchat' = mnchat + 1
    /\ mcall' = [input |-> input, context |-> ContextOf(mtype),
                 answer |-> <<>>, batch |-> <<>>]
    /\ mpc' = "invoke"
    /\ mret' = "none"
    /\ UNCHANGED <<mtype, mk, mhist, msummary, mentities, mwrites, mfold, wsvars, chatvars>>

\* line 257 resolves: the answer is taken and the write of lines 261-271
\* starts and runs to its first await; addUserMessage (line 262) and
\* saveContext (line 267 -> 134) have appended the user turn by then.
MemModelReturn ==
    /\ mpc = "invoke"
    /\ mcall' = [mcall EXCEPT !.answer = AnswerOf(mnchat)]
    /\ mhist' = IF mtype \in {"buffer", "window", "summary_buffer"}
                THEN addMessage(mhist, HumanMessage(mnchat, mcall.input))
                ELSE mhist
    /\ mpc' = CASE mtype \in {"buffer", "window"} -> "addUserMessage"
                [] mtype = "summary" -> "summarize"
                [] mtype = "summary_buffer" -> "saveUser"
                [] mtype = "entity" -> "extract"
    /\ UNCHANGED <<mtype, mk, msummary, mentities, mret, mnchat, mwrites, mfold, wsvars, chatvars>>

\* line 257 rejects: chatWithMemory throws before any write.
MemModelFail ==
    /\ mpc = "invoke"
    /\ mpc' = "idle"
    /\ mret' = "invokeThrew"
    /\ UNCHANGED <<mtype, mk, mhist, msummary, mentities, mcall, mnchat, mwrites, mfold, wsvars, chatvars>>

\* line 263, after the await of line 262: addAiMessage of Buffer and
\* Window appends the answer
MemAddAi ==
    /\ mpc = "addUserMessage"
    /\ mhist' = addMessage(mhist, AIMessage(mnchat, mcall.answer))
    /\ mwrites' = mwrites + 1
    /\ mpc' = "addAiMessage"
    /\ UNCHANGED <<mtype, mk, msummary, mentities, mcall, mret, mnchat, mfold, wsvars, chatvars>>

\* line 273, after the await of line 263: the answer is returned
MemReturn ==
    /\ mpc = "addAiMessage"
    /\ mpc' = "idle"
    /\ mret' = "answer"
    /\ UNCHANGED <<mtype, mk, mhist, msummary, mentities, mcall, mnchat, mwrites, mfold, wsvars, chatvars>>

\* ConversationBufferMemory.clear and ConversationBufferWindowMemory.clear
MemClear ==
    /\ mtype \in {"buffer", "window"}
    /\ mpc = "idle"
    /\ mhist' = <<>>
    /\ mwrites' = 0
    /\ UNCHANGED <<mtype, mk, msummary, mentities, mpc, mcall, mret, mnchat, mfold, wsvars, chatvars>>

\* ConversationSummaryMemory.addAiMessage, line 101: the chain resolves
\* and its text becomes the summary.
MemSummaryResolve(text) ==
    /\ mpc = "summarize"
    /\ msummary' = text
    /\ mwrites' = mwrites + 1
    /\ mpc' = "idle"
    /\ mret' = "answer"
    /\ UNCHANGED <<mtype, mk, mhist, mentities, mcall, mnchat, mfold, wsvars, chatvars>>

\* a failing summary write that loses the committed summary
MemSummaryRejectLosing ==
    /\ mpc = "summarize"
    /\ msummary' = <<>>
    /\ mpc' = "idle"
    /\ mret' = "writeThrew"
    /\ UNCHANGED <<mtype, mk, mhist, mentities, mcall, mnchat, mwrites, mfold, wsvars, chatvars>>

\* line 101: the chain rejects; nothing is assigned and the rejection
\* leaves addAiMessage and chatWithMemory (line 265), neither of which catches.
MemSummaryReject ==
    /\ mpc = "summarize"
    /\ mpc' = "idle"
    /\ mret' = "writeThrew"
    /\ UNCHANGED <<mtype, mk, mhist, msummary, mentities, mcall, mnchat, mwrites, mfold, wsvars, chatvars>>

\* ConversationSummaryBufferMemory.saveContext, line 135, after the await
\* of line 134: the answer is appended.
MemSaveAi ==
    /\ mpc = "saveUser"
    /\ mhist' = addMessage(mhist, AIMessage(mnchat, mcall.answer))
    /\ mwrites' = mwrites + 1
    /\ mpc' = "saveContext"
    /\ UNCHANGED <<mtype, mk, msummary, mentities, mcall, mret, mnchat, mfold, wsvars, chatvars>>

\* saveContext, lines 137-142, after the await of line 135: the stored
\* messages are read and updateSummary is called when the fold is due.
MemSaveContext ==
    /\ mpc = "saveContext"
    /\ IF FoldDue(mhist, mk)
       THEN /\ mcall' = [mcall EXCEPT !.batch = FoldBatch(mhist, mk)]
            /\ mfold' = [mfold EXCEPT !.passed = Max(@, Len(FoldBatch(mhist, mk)))]
            /\ mpc' = "updateSummary"
            /\ mret' = mret
       ELSE /\ mcall' = mcall
            /\ mfold' = mfold
            /\ mpc' = "idle"
            /\ mret' = "answer"
    /\ UNCHANGED <<mtype, mk, mhist, msummary, mentities, mnchat, mwrites, wsvars, chatvars>>

\* updateSummary, line 158: the chain resolves and its text becomes the summary.
MemUpdateSummaryResolve(text) ==
    /\ mpc = "updateSummary"
    /\ msummary' = text
    /\ mfold' = [mfold EXCEPT !.absorbed = Max(@, Len(mcall.batch))]
    /\ mpc' = "idle"
    /\ mret' = "answer"
    /\ UNCHANGED <<mtype, mk, mhist, mentities, mcall, mnchat, mwrites, wsvars, chatvars>>

\* line 158: the chain rejects; the rejection leaves updateSummary,
\* saveContext and chatWithMemory (line 267).
MemUpdateSummaryReject ==
    /\ mpc = "updateSummary"
    /\ mpc' = "idle"
    /\ mret' = "writeThrew"
    /\ UNCHANGED <<mtype, mk, mhist, msummary, mentities, mcall, mnchat, mwrites, mfold, wsvars, chatvars>>

\* EntityMemory.saveContext, lines 194-205, then line 273.
MemEntitySave(result) ==
    /\ mpc = "extract"
    /\ mentities' = EntitiesAfter(mentities, result)
    /\ mwrites' = mwrites + 1
    /\ mpc' = "idle"
    /\ mret' = "answer"
    /\ UNCHANGED <<mtype, mk, mhist, msummary, mcall, mnchat, mfold, wsvars, chatvars>>

MemNext ==
    \/ \E type \in MemTypes : \E k \in Ks : NewMemory(type, k)
    \/ \E input \in MemInputs : MemChatBegin(input)
    \/ MemModelReturn
    \/ MemModelFail
    \/ MemAddAi
    \/ MemReturn
    \/ MemClear
    \/ \E text \in Summaries : MemSummaryResolve(text)
    \/ MemSummaryReject
    \/ MemSaveAi
    \/ MemSaveContext
    \/ \E text \in Summaries : MemUpdateSummaryResolve(text)
    \/ MemUpdateSummaryReject
    \/ \E result \in Extractions : MemEntitySave(result)

\* ========================================================= memory claims
Min(a, b) == IF a < b THEN a ELSE b
LastOf(messages, n) == SubSeq(messages, Len(messages) - n + 1, Len(messages))
IsRead == mpc = "invoke"

\* C12: a Window(k) memory, k >= 0, never returns more than 2*k turns
\* from getMessages.
C12_WindowBound ==
    (mtype = "window" /\ IsRead) => Len(mcall.context) <= 2 * mk

\* C13: a Window(k) memory with k >= 1 returns, after n writes since the
\* last clear, exactly the last min(2n, 2k) stored turns in their order.
C13_WindowLastTurns ==
    (mtype = "window" /\ mk >= 1 /\ IsRead)
        => /\ Len(mhist) = 2 * mwrites
           /\ mcall.context = LastOf(mhist, Min(2 * mwrites, 2 * mk))

\* Window(1) after two writes has returned the second pair and not the first.
C13_Witness ==
    /\ mtype = "window" /\ mk = 1 /\ mwrites = 2 /\ IsRead
    /\ mcall.context = <<mhist[3], mhist[4]>>
    /\ mhist[1] \notin {mcall.context[1], mcall.context[2]}

\* what Buffer and Window hold and return
HistoryShape ==
    /\ Len(mhist) = 2 * mwrites + (IF mpc = "addUserMessage" THEN 1 ELSE 0)
    /\ \A i \in DOMAIN mhist : mhist[i].type = (IF i % 2 = 1 THEN "human" ELSE "ai")
    /\ (mtype = "buffer" /\ IsRead) => mcall.context = mhist

\* what a step may do to the stored history
HistoryStep ==
    \/ mhist' = mhist /\ mwrites' = mwrites
    \/ /\ mpc = "invoke" /\ mpc' = "addUserMessage"
       /\ mhist' = mhist \o <<HumanMessage(mnchat, mcall.input)>>
       /\ mwrites' = mwrites
    \/ /\ mpc = "addUserMessage"
       /\ mhist' = mhist \o <<AIMessage(mnchat, mcall.answer)>>
       /\ mwrites' = mwrites + 1
    \/ MemClear

\* C14: the history of Buffer and Window is append-only between clears:
\* a write appends the user turn and then the assistant turn at the end
\* and changes nothing stored before, the stored length is twice the
\* number of writes since the last clear, Buffer returns the whole store
\* and Window keeps what it no longer returns.
C14_AppendOnly ==
    []((mtype \in {"buffer", "window"}) => HistoryShape)
        /\ [][(mtype \in {"buffer", "window"}) => HistoryStep]_vars

\* A Window(1) that stores three pairs and has returned only the last one.
C14_Witness ==
    /\ mtype = "window" /\ mk = 1 /\ IsRead
    /\ Len(mhist) = 6 /\ mwrites = 3
    /\ Len(mcall.context) = 2

\* a write whose remote call (summarizing or extracting) fails
RemoteWriteFails ==
    \/ MemSummaryReject
    \/ MemUpdateSummaryReject
    \/ MemEntitySave(Rejected)

\* the committed summary and table, and what a read gives, are as before
CommittedStateKept ==
    /\ msummary' = msummary
    /\ mentities' = mentities
    /\ getSystemMessageContent(msummary') = getSystemMessageContent(msummary)
    /\ getContext(msummary', mhist', mk').summary = getContext(msummary, mhist, mk).summary
    /\ getEntityContext(mentities') = getEntityContext(mentities)

\* C15: when the remote call of a memory write fails, the committed
\* summary and the entity table are unchanged, and so is what a read gives.
C15_FailedWriteKeepsState ==
    [][RemoteWriteFails => CommittedStateKept]_vars

\* A Summary write has failed while a summary was committed.
C15_Witness ==
    /\ mtype = "summary" /\ mret = "writeThrew"
    /\ msummary # <<>> /\ mwrites >= 1

\* C16: a failing memory write is not fatal: no exception leaves the
\* write operation and chatWithMemory returns the answer.
C16_WriteFailureNotFatal ==
    mret # "writeThrew"

\* C17: a Summary memory contributes at most one system message built
\* from the current summary, nothing when the summary is empty, and
\* stores no raw turn.
C17_SummaryContextBounded ==
    mtype = "summary"
        => /\ mhist = <<>>
           /\ IsRead => /\ Len(mcall.context) <= 1
                        /\ msummary = <<>> => mcall.context = <<>>
                        /\ msummary # <<>> =>
                              mcall.context = <<SystemMessage(SummaryPrefix \o msummary)>>

\* After several writes the summary memory has contributed one message.
C17_Witness ==
    /\ mtype = "summary" /\ mwrites >= 2 /\ IsRead
    /\ Len(mcall.context) = 1

\* the raw turns of a context, without the system message
RawTurns(context) ==
    IF context # <<>> /\ context[1].type = "system" THEN Tail(context) ELSE context

\* C18: SummaryWindow(k).saveContext folds exactly when the raw history
\* is longer than (k+2)*2 after the append, and getContext returns the
\* summary with exactly the last min(total, 2k) raw turns, for every k >= 0.
C18_FoldAndContext ==
    mtype = "summary_buffer"
        => /\ mpc = "updateSummary" => Len(mhist) > (mk + 2) * 2
           /\ (mpc = "idle" /\ mret \in {"answer", "writeThrew"})
                 => (mcall.batch # <<>> <=> Len(mhist) > (mk + 2) * 2)
           /\ getContext(msummary, mhist, mk).summary = msummary
           /\ IsRead => RawTurns(mcall.context) = LastOf(mhist, Min(Len(mhist), 2 * mk))

\* the keys an extraction mentions
Mentioned(result) == KeysOf(JsonParse(StripFences(result)).body)

\* the extraction delivered a JSON object
IsObjectResult(result) ==
    /\ ~result.rejected
    /\ ~JsonParseThrows(StripFences(result))
    /\ JsonParse(StripFences(result)).t = "object"

\* the table after the step is the table before, overridden by the extraction
MergedBy(result) ==
    /\ KeysOf(mentities') = KeysOf(mentities) \cup Mentioned(result)
    /\ \A key \in KeysOf(mentities') :
          Lookup(mentities', key) =
              IF key \in Mentioned(result)
              THEN Lookup(JsonParse(StripFences(result)).body, key)
              ELSE Lookup(mentities, key)

\* C19: after a successful extraction every key it mentions has the value
\* it gave, every other key keeps its value, and no key is removed.
C19_EntityMerge ==
    [][\A result \in Extractions :
          (IsObjectResult(result) /\ MemEntitySave(result)) => MergedBy(result)]_vars

\* {A:x}, then {B:y}, then {A:z} has given {A:z, B:y}.
C19_Witness ==
    /\ mtype = "entity" /\ mwrites = 3 /\ mpc = "idle"
    /\ KeysOf(mentities) = {KeyA, KeyB}
    /\ Lookup(mentities, KeyA) = "z"
    /\ Lookup(mentities, KeyB) = "y"

\* C20: saveContext leaves the entity table unchanged and throws nothing
\* when the extraction does not deliver a JSON object.
C20_MalformedExtractionIgnored ==
    [][\A result \in Extractions :
          (~IsObjectResult(result) /\ MemEntitySave(result))
              => (mentities' = mentities /\ mret' # "writeThrew")]_vars

\* ======================================================= further claims
\* the memory store after a step is what getMemory and clear allow: an
\* entry appears only with an empty, never used instance, changes only
\* by being deleted, and is deleted only by a finishing clear
RegistryStep(sid) ==
    /\ (memoryStore[sid] # 0 /\ memoryStore'[sid] # 0) => memoryStore'[sid] = memoryStore[sid]
    /\ (memoryStore[sid] # 0 /\ memoryStore'[sid] = 0) => sid \in clearing
    /\ (memoryStore[sid] = 0 /\ memoryStore'[sid] # 0)
          => /\ memories'[memoryStore'[sid]] = <<>>
             /\ \A p \in ChatReqs : creq[p].memory # memoryStore'[sid]
             /\ \A other \in Sessions : memoryStore[other] # memoryStore'[sid]

\* a request that has just called getMemory holds the instance of its session
HoldsRegistered(p) ==
    (cpc[p] = "none" /\ cpc'[p] = "getMessages")
        => (creq'[p].memory # 0 /\ creq'[p].memory = memoryStore'[creq'[p].sessionId])

\* a clear of a session without an entry changes no memory and no entry
ClearUnknownIsNoOp(sid) ==
    (memoryStore[sid] = 0 /\ sid \notin clearing /\ nclear' = nclear + 1 /\ ClearBegin(sid))
        => (memoryStore' = memoryStore /\ memories' = memories /\ clearing' = clearing)

\* the first read of an instance returns an empty history
FirstReadEmpty(p) ==
    (/\ cpc[p] = "history" /\ cpc'[p] = "invoke"
     /\ \A q \in ChatReqs : (q # p /\ creq[q].memory = creq[p].memory)
                                => cpc[q] \in {"getMessages", "history"})
        => creq'[p].history = <<>>

RegistryAction ==
    /\ \A sid \in Sessions : RegistryStep(sid) /\ ClearUnknownIsNoOp(sid)
    /\ \A p \in ChatReqs : HoldsRegistered(p) /\ FirstReadEmpty(p)
    /\ \A sid \in Sessions : (sid \in clearing /\ sid \notin clearing') => memoryStore'[sid] = 0

\* C21: getMemory returns one instance per session id, created on first
\* use and the same until a clear deletes it, never shared between ids;
\* a clear of an unknown id does nothing, and after a clear the next read
\* of the session is empty.
C21_MemoryStoreRegistry ==
    [](\A s1, s2 \in Sessions : (s1 # s2 /\ memoryStore[s1] # 0) => memoryStore[s1] # memoryStore[s2])
        /\ [][RegistryAction]_vars

\* A session was used, cleared and used again: the second request holds a
\* new instance and has read an empty history.
C21_Witness ==
    /\ cpc[1] = "done" /\ cpc[2] = "invoke"
    /\ nclear = 1 /\ clearing = {}
    /\ creq[2].sessionId = creq[1].sessionId
    /\ creq[2].memory # creq[1].memory
    /\ memoryStore[creq[2].sessionId] = creq[2].memory
    /\ creq[2].history = <<>>

\* the entries of msg.messages that are turns: a valid role and a string content
IsTurn(m) == ~m.nullish /\ m.role \in ValidRoles /\ m.content.t = "string"
AsTurn(m) == [role |-> m.role, content |-> m.content.s]

\* the request turns as the claim states them
ExpectedTurns(msg) ==
    IF msg.messages.t = "array" /\ msg.messages.items # <<>>
    THEN LET kept == SelectSeq(msg.messages.items, IsTurn)
         IN  [i \in 1..Len(kept) |-> AsTurn(kept[i])]
    ELSE <<[role |-> "user",
            content |-> IF msg.input.t = "string" THEN Trim(msg.input.s) ELSE <<>>]>>

HasUsableTurn(turns) == \E i \in DOMAIN turns : Trim(turns[i].content) # <<>>

\* the step has appended one message of the given type to the trace
Replied(type) == Len(out') = Len(out) + 1 /\ out'[Len(out')].type = type

TurnsAndAcceptance(raw) ==
    /\ buildRequestMessages(raw.value) = ExpectedTurns(raw.value)
    /\ Replied("error") <=> ~HasUsableTurn(ExpectedTurns(raw.value))
    /\ Replied("start") <=> HasUsableTurn(ExpectedTurns(raw.value))

\* C22: the request turns are the valid entries of a non-empty messages
\* array, else the trimmed input as one user turn, and a message that is
\* a JSON object is rejected exactly when no turn has non-blank content.
C22_TurnsAndAcceptance ==
    [][\A raw \in WsInputs : \A clock \in 1..MaxClock :
          (raw.wellFormed /\ raw.value.top = "object" /\ OnMessage(raw, clock))
              => TurnsAndAcceptance(raw)]_vars

\* the ids the client of the model gives to its requests
ClientIds ==
    { Trim(raw.value.id.s) : raw \in { r \in WsInputs : r.wellFormed /\ HasClientId(r.value) } }

\* end(id), or the error(id) of the handler's catch block
HandlerTerminal(i) ==
    out[i].type = "end" \/ (out[i].type = "error" /\ out[i].message = "errMessage")

\* C23: ready is the first server message and occurs once; a delta or a
\* terminal message of a request follows a start of its id, every delta
\* has content, and no delta of an id follows the terminal message of
\* that id (stated for the ids the server generates).
C23_WellFormedTrace ==
    /\ out[1] = ReadyMsg
    /\ \A i \in Idx : i > 1 => out[i].type # "ready"
    /\ \A i \in Idx : (out[i].type = "delta" \/ HandlerTerminal(i))
          => \E j \in 1..(i - 1) : out[j].type = "start" /\ out[j].id = out[i].id
    /\ \A i \in Idx : out[i].type = "delta" => out[i].content # <<>>
    /\ \A i, j \in Idx :
          (i < j /\ HandlerTerminal(i) /\ out[j].type = "delta" /\ out[i].id \notin ClientIds)
              => out[j].id # out[i].id

\* a request that has not got its answer has stored no turn
NoEarlyWrite ==
    /\ \A p \in ChatReqs :
          cpc[p] \in {"none", "failed", "getMessages", "history", "invoke"}
              => \A m \in Insts : \A i \in DOMAIN memories[m] : memories[m][i].by # p
    /\ (mpc = "invoke" \/ mret = "invokeThrew")
          => \A i \in DOMAIN mhist : mhist[i].by # mnchat

\* the model is called only after the read, a failing call writes
\* nothing, and a memory changes only after the answer or by a clear
ReadInvokeWrite ==
    /\ \A p \in ChatReqs :
          /\ (cpc[p] # "invoke" /\ cpc'[p] = "invoke")
                => /\ cpc[p] = "history"
                   /\ creq'[p].history = HeldMessages(p)
          /\ (cpc[p] = "invoke" /\ cpc'[p] = "failed")
                => (memories' = memories /\ memoryStore' = memoryStore)
    /\ memories' # memories
          => \/ \E p \in ChatReqs :
                   cpc[p] \in {"invoke", "addUserMessage"} /\ cpc'[p] \notin {cpc[p], "failed"}
             \/ \E sid \in Sessions : ClearBegin(sid)
    /\ (mpc # "invoke" /\ mpc' = "invoke") => mcall'.context = ContextOf(mtype)
    /\ (mpc = "invoke" /\ mret' = "invokeThrew")
          => (mhist' = mhist /\ msummary' = msummary /\ mentities' = mentities)
    /\ (mhist' # mhist \/ msummary' # msummary \/ mentities' # mentities)
          => \/ mpc \notin {"idle", "invoke"}
             \/ mpc = "invoke" /\ mpc' \notin {"invoke", "idle"} /\ mret' # "invokeThrew"
             \/ MemClear

\* C24: dashScopeChatHandler and chatWithMemory read the memory before
\* the model is called and write it only after the model has answered;
\* when the call fails nothing is written and the memory is unchanged.
C24_WriteOnlyAfterModel ==
    []NoEarlyWrite /\ [][ReadInvokeWrite]_vars

\* A second request of a session has read the pair of the first one, its
\* model call has failed, and the memory still holds that pair only.
C24_Witness ==
    /\ cpc[1] = "done" /\ cpc[2] = "failed"
    /\ creq[2].memory # 0 /\ creq[2].memory = creq[1].memory
    /\ Len(creq[2].history) = 2
    /\ memories[creq[2].memory] = creq[2].history

\* C25: in a stored history every user turn that is followed by a turn
\* is followed by the answer of the same request.
C25_PairsNotInterleaved ==
    \A m \in Insts : \A i \in DOMAIN memories[m] :
        (memories[m][i].type = "human" /\ i < Len(memories[m]))
            => (memories[m][i + 1].type = "ai" /\ memories[m][i + 1].by = memories[m][i].by)

\* the last server message is the reply to a rejected client message
LastIsRejection ==
    out[Len(out)].type = "error" /\ out[Len(out)].message \in {"notObject", "missingInput"}

\* an invalid message leaves the generating request as it was
GeneratingUntouched ==
    /\ activeController' = activeController
    /\ aborted' = aborted
    /\ pc' = pc
    /\ reqId' = reqId
    /\ produced' = produced

InvalidWhileGenerating ==
    \A raw \in WsInputs : \A clock \in 1..MaxClock :
        (/\ InvalidFrame(raw)
         /\ activeController # 0 /\ Live(activeController)
         /\ OnMessage(raw, clock)) => GeneratingUntouched

\* C26: an invalid client message received while a request generates
\* neither aborts nor replaces its controller nor changes its handler,
\* and on an open socket the request still runs to its terminal message.
C26_InvalidDoesNotCancel ==
    [][InvalidWhileGenerating]_vars
        /\ (([](readyState = "OPEN")) =>
               \A h \in Slots :
                  (Live(h) /\ LastIsRejection)
                      ~> (pc[h] = "done" /\ (DistinctIds => Terminated(h))))

\* A request was generating when an invalid message was rejected; it was
\* not aborted and its delta and its end followed the error reply.
C26_Witness ==
    /\ nreq = 1 /\ nrej = 1 /\ ~aborted[1] /\ pc[1] = "done" /\ activeController = 1
    /\ Len(out) = 5
    /\ out[2] = StartMsg(reqId[1])
    /\ out[3].type = "error" /\ out[3].message \in {"notObject", "missingInput"}
    /\ out[3].id # reqId[1]
    /\ out[4].type = "delta" /\ out[4].id = reqId[1]
    /\ out[5] = EndMsg(reqId[1])

\* C27: two accepted requests that carry no id of their own get distinct
\* generated ids (an id no client message carries is a generated one).
C27_GeneratedIdsDistinct ==
    \A g, h \in Accepted :
        (g # h /\ reqId[g] \notin ClientIds /\ reqId[h] \notin ClientIds)
            => reqId[g] # reqId[h]

\* the stored turns, by position, that getContext returns as recent
RecentFrom ==
    Len(mhist) - Len(getContext(msummary, mhist, mk).recentMessages)

\* C28: after a completed write of SummaryWindow(k) every stored turn is
\* among the recent turns of getContext or was part of a fold that has
\* become the summary.
C28_NoInvisibleTurn ==
    (mtype = "summary_buffer" /\ mpc = "idle" /\ mret = "answer")
        => \A i \in DOMAIN mhist : i > RecentFrom \/ i <= mfold.absorbed

\* C29: the batch of a fold holds no turn that was handed to the
\* summarizer by an earlier fold or is already part of the summary.
C29_FoldedOnce ==
    [][(mpc = "saveContext" /\ mpc' = "updateSummary")
          => \A i \in DOMAIN mcall'.batch : (i > mfold.passed /\ i > mfold.absorbed)]_vars

\* C30: a read by a request that began after a clear of its session had
\* completed returns no turn that was stored before or during that clear.
C30_ClearedTurnsStayGone ==
    \A p \in ChatReqs : \A i \in DOMAIN creq[p].history :
        creq[p].history[i] \notin creq[p].stale

\* A request stored its user turn while the clear was awaiting and its
\* answer after the clear; the next request of the session began after
\* the clear and has read an empty history from a new instance.
C30_Witness ==
    /\ cpc[1] \in {"addAiMessage", "done"} /\ cpc[2] = "invoke"
    /\ creq[2].sessionId = creq[1].sessionId
    /\ creq[2].memory # creq[1].memory
    /\ \E t \in creq[2].stale : t.by = 1 /\ t.type = "human"
    /\ \E i \in DOMAIN memories[creq[1].memory] :
          memories[creq[1].memory][i].by = 1 /\ memories[creq[1].memory][i].type = "ai"
    /\ creq[2].history = <<>>

\* ================================================================ specs
Init == WsInit /\ ChatInit /\ MemInit

Next ==
    \/ \E raw \in WsInputs : \E clock \in 1..MaxClock : OnMessage(raw, clock)
    \/ \E h \in Slots : CreateResolve(h)
    \/ \E h \in Slots : CreateReject(h)
    \/ \E h \in Slots : StreamChunk(h)
    \/ \E h \in Slots : StreamEnd(h)
    \/ \E h \in Slots : StreamThrow(h)
    \/ OnClosing
    \/ OnClose

\* One WebSocket connection.
Spec == Init /\ [][Next]_vars

\* The upstream call of a handler settles and its stream keeps moving: a
\* suspended handler is eventually resumed.
FairSpec == Spec /\ \A h \in Slots : WF_vars(HandlerStep(h))

\* Concurrent requests to /dashscope/chat and /dashscope/chat/clear.
ChatSpec == Init /\ [][ChatNext]_vars

\* requests to the chat routes and calls of chatWithMemory made so far
Calls == nchat + nclear + mnchat

\* The process serves the chat routes and runs chatWithMemory on one
\* memory, in any order and interleaving, MaxCalls times in all.
UseNext ==
    \/ ChatNext /\ Calls' <= MaxCalls
    \/ MemNext /\ Calls' <= MaxCalls

UseSpec == Init /\ [][UseNext]_vars

\* One memory object of memory.ts driven by successive chatWithMemory calls.
MemSpec == Init /\ [][MemNext]_vars

====
